---- MODULE Spec2Model ----
(***************************************************************************)
(* Model of the lead scoring engine of lead-ranker-caprae (src/scoring.py): *)
(* the per-record sub-scorers, the composite score, the batch-relative      *)
(* normalisation and the percentile rank, driven by score_leads.            *)
(*                                                                          *)
(* Conventions.                                                             *)
(*  - Text is a sequence of one-character strings: "SaaS" is                *)
(*    <<"S","a","a","S">>.                                                  *)
(*  - Every score is held in tenths: 45 is 450, 85.5 is 855.  All values    *)
(*    the scorer produces before the final rounding are multiples of 0.1    *)
(*    (table scores times 0.9 or 0.8), and the composite is rounded to one  *)
(*    decimal.  The composite is computed exactly, in units of 1/8000 of a  *)
(*    tenth.  When it lies exactly halfway between two tenths, the Python   *)
(*    float lies just above or just below the tie: the rounding then goes   *)
(*    either way, the same way for the same sub-scores (round_up).          *)
(*  - A cell of the input table is a record: NA (a missing value, NaN, in a  *)
(*    column the table has), Str(text), Num(integer) or List (a non-scalar  *)
(*    cell, e.g. a Python list of two items).  Every table of the model has *)
(*    the nine recognised columns.                                          *)
(*  - The columns score_leads creates hold the integer 0; writing a float   *)
(*    or a text into one converts the column (pandas 1.x and 2.x), so the   *)
(*    write itself does not fail.                                           *)
(***************************************************************************)
EXTENDS Integers, Sequences, FiniteSets, TLC

(***************************************************************************)
(* Bounds of the model.                                                     *)
(***************************************************************************)
MaxBatch == 2
MaxCore == 5
MaxTicks == 1
MaxColumn == 5
MaxEmployees == 5001

(***************************************************************************)
(* The state.                                                               *)
(***************************************************************************)
VARIABLES
  df,              \* the caller's table
  index,           \* the kind of df's index labels: "range" or "text"
  now_year,        \* the system clock's year
  call_year,       \* the clock's year when the current call started
  calls,           \* calls of score_leads started
  openai_api_key,  \* the scorer instance's key
  pc,              \* where the current call stands
  df_scored,       \* score_leads: the table being built
  idx,             \* score_leads: the loop's position (1-based)
  lead_scores,     \* score_leads: scores, the dict line 83 returned last
  score_column,    \* _apply_relative_scoring: scores, the Score column it read
  percentiles,     \* _apply_relative_scoring: the percentiles it computed
  round_up,        \* exact decimal ties met so far |-> the way the float fell
  returned         \* what each completed call returned, and the years it ran in

(***************************************************************************)
(* Cell values.                                                             *)
(***************************************************************************)
NA == [k |-> "na"]
List == [k |-> "list"]
Str(s) == [k |-> "str", s |-> s]
Num(n) == [k |-> "num", n |-> n]

(***************************************************************************)
(* Text helpers: the str methods the scorer uses.                           *)
(***************************************************************************)
lowercase == <<"a","b","c","d","e","f","g","h","i","j","k","l","m","n","o","p","q","r","s","t","u","v","w","x","y","z">>
uppercase == <<"A","B","C","D","E","F","G","H","I","J","K","L","M","N","O","P","Q","R","S","T","U","V","W","X","Y","Z">>
digits == <<"0","1","2","3","4","5","6","7","8","9">>

Range(f) == {f[i] : i \in DOMAIN f}
UpperSet == Range(uppercase)
LowerSet == Range(lowercase)
DigitSet == Range(digits)
ToLower == [c \in UpperSet |-> lowercase[CHOOSE i \in DOMAIN uppercase : uppercase[i] = c]]
ToUpper == [c \in LowerSet |-> uppercase[CHOOSE i \in DOMAIN lowercase : lowercase[i] = c]]
DigitValue == [c \in DigitSet |-> (CHOOSE i \in DOMAIN digits : digits[i] = c) - 1]
IsUpperCh(c) == c \in UpperSet
IsLowerCh(c) == c \in LowerSet
IsAlphaCh(c) == IsUpperCh(c) \/ IsLowerCh(c)
IsDigitCh(c) == c \in DigitSet
IsSpaceCh(c) == c = " "
LowerCh(c) == IF IsUpperCh(c) THEN ToLower[c] ELSE c
UpperCh(c) == IF IsLowerCh(c) THEN ToUpper[c] ELSE c

\* str.lower()
Lower(s) == [i \in 1..Len(s) |-> LowerCh(s[i])]

\* str.title(): a letter that follows a non-letter is upper-cased, every other
\* letter is lower-cased.
Title(s) ==
  [i \in 1..Len(s) |->
     IF i = 1 \/ ~IsAlphaCh(s[IF i = 1 THEN 1 ELSE i - 1])
       THEN UpperCh(s[i]) ELSE LowerCh(s[i])]

\* str.strip()
RECURSIVE LStrip(_)
LStrip(s) == IF s /= <<>> /\ IsSpaceCh(Head(s)) THEN LStrip(Tail(s)) ELSE s
RECURSIVE RStrip(_)
RStrip(s) ==
  IF s /= <<>> /\ IsSpaceCh(s[Len(s)]) THEN RStrip(SubSeq(s, 1, Len(s) - 1)) ELSE s
Strip(s) == RStrip(LStrip(s))

\* t in s
Contains(s, t) ==
  \E i \in 1..(Len(s) - Len(t) + 1) : SubSeq(s, i, i + Len(t) - 1) = t
\* s.startswith(p)
StartsWith(s, p) == Len(s) >= Len(p) /\ SubSeq(s, 1, Len(p)) = p

\* str.split(): the maximal runs of non-whitespace characters.
RECURSIVE SplitFrom(_, _, _)
SplitFrom(s, i, cur) ==
  IF i > Len(s) THEN (IF cur = <<>> THEN <<>> ELSE <<cur>>)
  ELSE IF IsSpaceCh(s[i])
    THEN (IF cur = <<>> THEN <<>> ELSE <<cur>>) \o SplitFrom(s, i + 1, <<>>)
    ELSE SplitFrom(s, i + 1, Append(cur, s[i]))
Split(s) == SplitFrom(s, 1, <<>>)

\* str.split(sep) for a one-character separator: the pieces between
\* separators, empty pieces kept.
RECURSIVE SplitOnFrom(_, _, _, _)
SplitOnFrom(s, sep, i, cur) ==
  IF i > Len(s) THEN <<cur>>
  ELSE IF s[i] = sep THEN <<cur>> \o SplitOnFrom(s, sep, i + 1, <<>>)
  ELSE SplitOnFrom(s, sep, i + 1, Append(cur, s[i]))
SplitOn(s, sep) == SplitOnFrom(s, sep, 1, <<>>)

\* s.replace(" ", "")
RemoveSpaces(s) == SelectSeq(s, LAMBDA c : ~IsSpaceCh(c))
\* str.isalpha(), str.isalnum(): non-empty and every character in the class
IsAlpha(s) == s /= <<>> /\ \A i \in DOMAIN s : IsAlphaCh(s[i])
IsAlnum(s) == s /= <<>> /\ \A i \in DOMAIN s : IsAlphaCh(s[i]) \/ IsDigitCh(s[i])

\* int(text) / float(text) for the texts of the model: an optional sign and
\* decimal digits.  FAILED stands for the ValueError.
FAILED == [k |-> "failed"]
RECURSIVE DigitsValue(_)
DigitsValue(s) ==
  IF s = <<>> THEN 0
  ELSE 10 * DigitsValue(SubSeq(s, 1, Len(s) - 1)) + DigitValue[s[Len(s)]]
ParseDigits(body, neg) ==
  IF body /= <<>> /\ \A i \in DOMAIN body : IsDigitCh(body[i])
    THEN Num(IF neg THEN 0 - DigitsValue(body) ELSE DigitsValue(body))
    ELSE FAILED
ParseStripped(s) ==
  IF s /= <<>> /\ Head(s) = "-" THEN ParseDigits(Tail(s), TRUE) ELSE ParseDigits(s, FALSE)
ParseNumber(s0) == ParseStripped(Strip(s0))
\* int(v) / float(v) of a cell that is not NA
ToNumber(v) ==
  CASE v.k = "num" -> v
    [] v.k = "str" -> ParseNumber(v.s)
    [] OTHER -> FAILED

\* str(cell): the text itself, the decimal digits of an integer, "nan" for a
\* missing value (NaN)
RECURSIVE NatText(_)
NatText(n) ==
  IF n < 10 THEN <<digits[n + 1]>> ELSE NatText(n \div 10) \o <<digits[(n % 10) + 1]>>
str_of(v) ==
  CASE v.k = "str" -> v.s
    [] v.k = "num" -> IF v.n < 0 THEN <<"-">> \o NatText(0 - v.n) ELSE NatText(v.n)
    [] OTHER -> <<"n","a","n">>
\* a blank test that only knows the missing value
BlankOnlyMissing(v) == v.k = "na"

\* "not cell or pd.isna(cell)": a missing value, the empty text, the number 0
Blank(v) ==
  \/ v.k = "na"
  \/ v.k = "str" /\ v.s = <<>>
  \/ v.k = "num" /\ v.n = 0

Min(a, b) == IF a < b THEN a ELSE b
Max(a, b) == IF a > b THEN a ELSE b
RECURSIVE SumSeq(_)
SumSeq(s) == IF s = <<>> THEN 0 ELSE Head(s) + SumSeq(Tail(s))
\* number of items of a table that occur in the text
CountIn(terms, text) == Cardinality({i \in DOMAIN terms : Contains(text, terms[i])})
AnyIn(terms, text) == \E i \in DOMAIN terms : Contains(text, terms[i])

(***************************************************************************)
(* The scorer's configuration (ImprovedLeadScorer.__init__), in declared    *)
(* order.  Weights are in twentieths (0.25 = 5/20), scores in whole points. *)
(***************************************************************************)
feature_weights ==
  [company_size_score |-> 5, industry_attractiveness |-> 6,
   financial_indicators |-> 5, technology_stack |-> 2, market_position |-> 2]

target_industries ==
  << <<<<"S","a","a","S">>, 95>>,
     <<<<"S","o","f","t","w","a","r","e">>, 92>>,
     <<<<"T","e","c","h","n","o","l","o","g","y">>, 90>>,
     <<<<"F","i","n","t","e","c","h">>, 88>>,
     <<<<"H","e","a","l","t","h","c","a","r","e"," ","T","e","c","h","n","o","l","o","g","y">>, 87>>,
     <<<<"E","-","c","o","m","m","e","r","c","e">>, 85>>,
     <<<<"H","e","a","l","t","h","c","a","r","e">>, 82>>,
     <<<<"M","e","d","i","c","a","l"," ","D","e","v","i","c","e","s">>, 80>>,
     <<<<"B","i","o","t","e","c","h","n","o","l","o","g","y">>, 78>>,
     <<<<"P","r","o","f","e","s","s","i","o","n","a","l"," ","S","e","r","v","i","c","e","s">>, 75>>,
     <<<<"B","u","s","i","n","e","s","s"," ","S","e","r","v","i","c","e","s">>, 73>>,
     <<<<"M","a","n","u","f","a","c","t","u","r","i","n","g">>, 70>>,
     <<<<"I","n","d","u","s","t","r","i","a","l">>, 72>>,
     <<<<"E","d","u","c","a","t","i","o","n">>, 65>>,
     <<<<"E","d","T","e","c","h">>, 68>>,
     <<<<"R","e","a","l"," ","E","s","t","a","t","e">>, 60>>,
     <<<<"F","i","n","a","n","c","i","a","l"," ","S","e","r","v","i","c","e","s">>, 63>>,
     <<<<"I","n","s","u","r","a","n","c","e">>, 58>>,
     <<<<"R","e","t","a","i","l">>, 55>>,
     <<<<"C","o","n","s","t","r","u","c","t","i","o","n">>, 50>>,
     <<<<"A","g","r","i","c","u","l","t","u","r","e">>, 45>>,
     <<<<"T","r","a","n","s","p","o","r","t","a","t","i","o","n">>, 48>>,
     <<<<"E","n","e","r","g","y">>, 52>>,
     <<<<"U","t","i","l","i","t","i","e","s">>, 40>>,
     <<<<"G","o","v","e","r","n","m","e","n","t">>, 35>> >>

\* (min_emp, max_emp) |-> base score, as <<min_emp, max_emp, base_score>>
employee_scoring ==
  << <<100, 300, 95>>, <<50, 100, 90>>, <<300, 500, 85>>, <<25, 50, 80>>,
     <<500, 1000, 75>>, <<15, 25, 70>>, <<1000, 2000, 60>>, <<5, 15, 50>>,
     <<2000, 5000, 40>>, <<0, 5, 30>> >>

tech_keywords ==
  << <<"t","e","c","h">>, <<"s","o","f","t">>, <<"d","a","t","a">>,
     <<"c","l","o","u","d">>, <<"a","i">>, <<"d","i","g","i","t","a","l">>,
     <<"a","p","p">>, <<"p","l","a","t","f","o","r","m">> >>

(***************************************************************************)
(* _score_company_size_enhanced                                             *)
(***************************************************************************)
\* int(employee_count) if pd.notna(employee_count) else 0, with any error -> 0
emp_count_of(row) ==
  LET count(n) == IF n.k = "failed" THEN 0 ELSE n.n
  IN IF row.EmployeeCount.k = "na" THEN 0 ELSE count(ToNumber(row.EmployeeCount))

\* the first range of the table, from entry i on, that holds emp_count; 0 if none
RECURSIVE FirstRange(_, _)
FirstRange(emp_count, i) ==
  IF i > Len(employee_scoring) THEN 0
  ELSE IF employee_scoring[i][1] <= emp_count /\ emp_count < employee_scoring[i][2]
    THEN i ELSE FirstRange(emp_count, i + 1)

\* range_score with the nudges also given at the positions 0.7 and 0.3
range_score_inclusive(emp_count, min_emp, max_emp, base_score) ==
  IF 10 * (emp_count - min_emp) >= 7 * (max_emp - min_emp)
    THEN Min(10 * (base_score + 3), 1000)
  ELSE IF 10 * (emp_count - min_emp) <= 3 * (max_emp - min_emp)
    THEN Max(10 * (base_score - 3), 0)
  ELSE 10 * base_score

\* the score of a count that falls in entry i of the table
range_score(emp_count, min_emp, max_emp, base_score) ==
  \* range_position = (emp_count - min_emp) / (max_emp - min_emp)
  IF 10 * (emp_count - min_emp) > 7 * (max_emp - min_emp)
    THEN Min(10 * (base_score + 3), 1000)
  ELSE IF 10 * (emp_count - min_emp) < 3 * (max_emp - min_emp)
    THEN Max(10 * (base_score - 3), 0)
  ELSE 10 * base_score

\* the size score without the test for counts of 5000 or more: they get the
\* default
size_score_default_for_large(row) ==
  LET found(emp_count, i) ==
        IF i /= 0
          THEN range_score(emp_count, employee_scoring[i][1], employee_scoring[i][2],
                           employee_scoring[i][3])
        ELSE 350
      score(emp_count) ==
        IF emp_count = 0 THEN 250 ELSE found(emp_count, FirstRange(emp_count, 1))
  IN score(emp_count_of(row))

_score_company_size_enhanced(row) ==
  LET found(emp_count, i) ==
        IF i /= 0
          THEN range_score(emp_count, employee_scoring[i][1], employee_scoring[i][2],
                           employee_scoring[i][3])
        ELSE IF emp_count >= 5000 THEN 250
        ELSE 350
      score(emp_count) ==
        IF emp_count = 0 THEN 250 ELSE found(emp_count, FirstRange(emp_count, 1))
  IN score(emp_count_of(row))

(***************************************************************************)
(* _score_industry_enhanced                                                 *)
(***************************************************************************)
\* index of the table entry whose name is exactly the text; 0 if none
ExactIndustry(industry_clean) ==
  IF \E i \in DOMAIN target_industries : target_industries[i][1] = industry_clean
    THEN CHOOSE i \in DOMAIN target_industries : target_industries[i][1] = industry_clean
    ELSE 0

\* One pass of the fuzzy loop (lines 170-185) over table entry i, from the
\* accumulator acc = <<best_match_score, best_match_weight>> (score in tenths).
FuzzyStep(industry_lower, i, acc) ==
  LET score == target_industries[i][2]
      target_lower == Lower(target_industries[i][1])
      sub == Contains(industry_lower, target_lower) \/ Contains(target_lower, industry_lower)
      acc1 == IF sub /\ Len(target_lower) > acc[2]
                THEN <<score * 9, Len(target_lower)>> ELSE acc
      target_words == Split(target_lower)
      industry_words == Split(industry_lower)
      common_words == Range(target_words) \cap Range(industry_words)
      \* len(common_words) / len(target_words) > 0.5
      overlap == common_words /= {} /\ 2 * Cardinality(common_words) > Len(target_words)
      match_score == score * 8
  IN IF overlap /\ match_score > acc1[1] THEN <<match_score, acc1[2]>> ELSE acc1

RECURSIVE FuzzyLoop(_, _, _)
FuzzyLoop(industry_lower, i, acc) ==
  IF i > Len(target_industries) THEN acc
  ELSE FuzzyLoop(industry_lower, i + 1, FuzzyStep(industry_lower, i, acc))

industry_bonus_tech ==
  << <<"t","e","c","h">>, <<"s","o","f","t","w","a","r","e">>,
     <<"d","i","g","i","t","a","l">>, <<"a","i">>, <<"d","a","t","a">> >>
industry_bonus_service ==
  << <<"s","e","r","v","i","c","e">>, <<"c","o","n","s","u","l","t","i","n","g">>,
     <<"s","o","l","u","t","i","o","n">> >>

\* the base score before the keyword bonuses (lines 164-187), in tenths
industry_base_score(industry_clean) ==
  LET x == ExactIndustry(industry_clean)
  IN IF x /= 0 THEN 10 * target_industries[x][2]
     ELSE FuzzyLoop(Lower(industry_clean), 1, <<450, 0>>)[1]

_score_industry_enhanced(row) ==
  LET service_bonus(b1, industry_lower) ==
        IF AnyIn(industry_bonus_service, industry_lower)
          THEN Min(b1 + 30, 1000) ELSE b1
      tech_bonus(base_score, industry_lower) ==
        IF AnyIn(industry_bonus_tech, industry_lower)
          THEN Min(base_score + 50, 1000) ELSE base_score
      bonuses(base_score, industry_lower) ==
        service_bonus(tech_bonus(base_score, industry_lower), industry_lower)
      score(industry_clean) ==
        bonuses(industry_base_score(industry_clean), Lower(industry_clean))
  IN IF Blank(row.Industry) THEN 400
     ELSE score(Title(Strip(str_of(row.Industry))))

(***************************************************************************)
(* _score_website_enhanced                                                  *)
(***************************************************************************)
http_prefix == <<"h","t","t","p",":","/","/">>
https_prefix == <<"h","t","t","p","s",":","/","/">>

\* website_str after lines 207-209
website_str_of(text) ==
  LET w == Lower(Strip(text))
  IN IF StartsWith(w, http_prefix) \/ StartsWith(w, https_prefix)
       THEN w ELSE https_prefix \o w

\* urlparse(website_str).netloc of a text that starts with a scheme and "//":
\* what follows the "//" up to the first "/", "?" or "#".
RECURSIVE TakeNetloc(_)
TakeNetloc(s) ==
  IF s = <<>> \/ Head(s) \in {"/", "?", "#"} THEN <<>>
  ELSE <<Head(s)>> \o TakeNetloc(Tail(s))
netloc_of(website_str) ==
  TakeNetloc(SubSeq(website_str,
                    (IF StartsWith(website_str, https_prefix) THEN 9 ELSE 8),
                    Len(website_str)))
\* urlparse raises ValueError("Invalid IPv6 URL") when the netloc holds one
\* kind of square bracket without the other.  (Python 3.11.4 and later also
\* refuse a bracketed host that is no IP address; no text of the model holds
\* a pair of brackets.)
urlparse_raises(website_str) ==
  LET unpaired(netloc) == ("[" \in Range(netloc)) /= ("]" \in Range(netloc))
  IN unpaired(netloc_of(website_str))

\* domain_points without the bonus of lines 241-242 for an alphabetic name
domain_points_no_alpha(domain_name, domain_ext) ==
  LET ext_points ==
        IF domain_ext = <<"c","o","m">> THEN 200
        ELSE IF domain_ext \in {<<"i","o">>, <<"a","i">>, <<"t","e","c","h">>, <<"c","o">>}
          THEN 250
        ELSE IF domain_ext \in {<<"n","e","t">>, <<"o","r","g">>} THEN 100
        ELSE 50
      len_points ==
        IF 4 <= Len(domain_name) /\ Len(domain_name) <= 12 THEN 150
        ELSE IF 3 <= Len(domain_name) /\ Len(domain_name) <= 15 THEN 100
        ELSE 0
      tech_score == 50 * CountIn(tech_keywords, domain_name)
      digit_points == IF \E i \in DOMAIN domain_name : IsDigitCh(domain_name[i]) THEN 50 ELSE 0
      hyphen_points == IF "-" \in Range(domain_name) THEN 30 ELSE 0
  IN 400 + ext_points + len_points + Min(tech_score, 150) - digit_points - hyphen_points

\* the score built in lines 204-242 when nothing raises, before the clamp
domain_points(domain_name, domain_ext) ==
  LET ext_points ==
        IF domain_ext = <<"c","o","m">> THEN 200
        ELSE IF domain_ext \in {<<"i","o">>, <<"a","i">>, <<"t","e","c","h">>, <<"c","o">>}
          THEN 250
        ELSE IF domain_ext \in {<<"n","e","t">>, <<"o","r","g">>} THEN 100
        ELSE 50
      len_points ==
        IF 4 <= Len(domain_name) /\ Len(domain_name) <= 12 THEN 150
        ELSE IF 3 <= Len(domain_name) /\ Len(domain_name) <= 15 THEN 100
        ELSE 0
      tech_score == 50 * CountIn(tech_keywords, domain_name)
      digit_points == IF \E i \in DOMAIN domain_name : IsDigitCh(domain_name[i]) THEN 50 ELSE 0
      hyphen_points == IF "-" \in Range(domain_name) THEN 30 ELSE 0
      alpha_points == IF IsAlpha(domain_name) /\ Len(domain_name) >= 5 THEN 50 ELSE 0
  IN 400 + ext_points + len_points + Min(tech_score, 150)
         - digit_points - hyphen_points + alpha_points

website_points(website_str) ==
  LET points(domain_parts) ==
        IF Len(domain_parts) >= 2
          THEN domain_points(domain_parts[1], domain_parts[Len(domain_parts)])
          ELSE 400
  IN points(SplitOn(Lower(netloc_of(website_str)), "."))

_score_website_enhanced(row) ==
  LET score(website_str) ==
        IF urlparse_raises(website_str) THEN 250 ELSE website_points(website_str)
  IN IF Blank(row.Website) THEN 200
     ELSE Max(Min(score(website_str_of(str_of(row.Website))), 1000), 0)

(***************************************************************************)
(* _score_financial_enhanced                                                *)
(***************************************************************************)
\* float(row[field]) when the field is present and converts; FAILED otherwise
float_of(v) == IF v.k = "na" THEN FAILED ELSE ToNumber(v)

revenue_score(revenue) ==
  IF revenue >= 100000000 THEN 950
  ELSE IF revenue >= 50000000 THEN 900
  ELSE IF revenue >= 25000000 THEN 850
  ELSE IF revenue >= 10000000 THEN 800
  ELSE IF revenue >= 5000000 THEN 750
  ELSE IF revenue >= 1000000 THEN 700
  ELSE IF revenue >= 500000 THEN 600
  ELSE 500

growth_points(growth) ==
  IF growth >= 100 THEN 250
  ELSE IF growth >= 50 THEN 200
  ELSE IF growth >= 25 THEN 150
  ELSE IF growth >= 10 THEN 100
  ELSE IF growth >= 0 THEN 50
  ELSE IF growth >= -10 THEN -50
  ELSE -150

_score_financial_enhanced(row) ==
  LET of_revenue(revenue) ==
        IF revenue.k = "failed" THEN 450 ELSE revenue_score(revenue.n)
      add_growth(score, growth) ==
        IF growth.k = "failed" THEN score ELSE score + growth_points(growth.n)
      add_profit(score, profit) ==
        IF profit.k = "failed" THEN score
        ELSE IF profit.n > 0 THEN score + 100 ELSE score - 50
      score ==
        add_profit(add_growth(of_revenue(float_of(row.Revenue)), float_of(row.Growth)),
                   float_of(row.Profit))
  IN Max(Min(score, 1000), 0)

(***************************************************************************)
(* _score_market_position_enhanced                                          *)
(***************************************************************************)
leadership_terms ==
  << <<"l","e","a","d","e","r">>, <<"l","e","a","d","i","n","g">>,
     <<"p","r","e","m","i","e","r">>, <<"t","o","p">>, <<"b","e","s","t">>,
     <<"f","i","r","s","t">>, <<"#","1">>,
     <<"m","a","r","k","e","t"," ","l","e","a","d","e","r">> >>
innovation_terms ==
  << <<"a","i">>, <<"t","e","c","h">>, <<"d","i","g","i","t","a","l">>,
     <<"c","l","o","u","d">>, <<"d","a","t","a">>,
     <<"a","n","a","l","y","t","i","c","s">>,
     <<"a","u","t","o","m","a","t","i","o","n">>,
     <<"p","l","a","t","f","o","r","m">>, <<"s","a","a","s">> >>
market_tech_terms ==
  << <<"s","o","f","t","w","a","r","e">>, <<"t","e","c","h">>, <<"s","a","a","s">> >>
market_health_terms ==
  << <<"h","e","a","l","t","h","c","a","r","e">>, <<"m","e","d","i","c","a","l">>,
     <<"f","i","n","t","e","c","h">> >>

_score_market_position_enhanced(row) ==
  LET industry_points(industry) ==
        IF AnyIn(market_tech_terms, industry) THEN 120
        ELSE IF AnyIn(market_health_terms, industry) THEN 80
        ELSE 0
      name_points(company_name) ==
        IF Len(Split(company_name)) <= 3 /\ IsAlnum(RemoveSpaces(company_name))
          THEN 50 ELSE 0
      score(company_name, industry) ==
        450 + Min(80 * CountIn(leadership_terms, company_name), 200)
            + Min(40 * CountIn(innovation_terms, company_name), 160)
            + industry_points(industry) + name_points(company_name)
  IN Max(Min(score(Lower(str_of(row.Company)), Lower(str_of(row.Industry))), 1000), 0)

(***************************************************************************)
(* _score_data_completeness, _score_company_maturity                        *)
(***************************************************************************)
\* field in row and pd.notna(row[field]) and row[field] != ''
Present(v) == v.k /= "na" /\ ~(v.k = "str" /\ v.s = <<>>)

_score_data_completeness(row) ==
  LET required_score ==
        20 * Cardinality({f \in {"Company", "Industry", "Website", "EmployeeCount"} :
                            Present(row[f])})
      optional_score ==
        5 * Cardinality({f \in {"Revenue", "Growth", "Founded", "Location"} :
                           Present(row[f])})
  IN 10 * Min(required_score + optional_score, 100)

\* current_year is datetime.now().year at the time the row is scored
_score_company_maturity(row, current_year) ==
  LET of_age(company_age) ==
        IF 5 <= company_age /\ company_age <= 15 THEN 700
        ELSE IF 3 <= company_age /\ company_age <= 20 THEN 600
        ELSE IF company_age > 25 THEN 400
        ELSE 500
      of_year(founded_year) ==
        IF founded_year.k = "failed" THEN 500 ELSE of_age(current_year - founded_year.n)
  IN of_year(float_of(row.Founded))

(***************************************************************************)
(* _score_individual_lead                                                   *)
(***************************************************************************)
Fields ==
  {"Company", "Industry", "Website", "EmployeeCount", "Revenue", "Growth",
   "Profit", "Founded", "Location"}

\* A non-scalar cell makes pd.isna / pd.notna return an array, whose truth
\* value is ambiguous: the "if" that tests it raises ValueError.  Only the
\* conversion of EmployeeCount sits inside a try block, and the same cell is
\* tested again, unguarded, by _score_data_completeness.
individual_lead_raises(row) == \E f \in Fields : row[f].k = "list"

_score_individual_lead(row, current_year) ==
  [company_size_score |-> _score_company_size_enhanced(row),
   industry_score |-> _score_industry_enhanced(row),
   website_quality_score |-> _score_website_enhanced(row),
   financial_score |-> _score_financial_enhanced(row),
   market_position_score |-> _score_market_position_enhanced(row),
   data_completeness_score |-> _score_data_completeness(row),
   company_maturity_score |-> _score_company_maturity(row, current_year)]

(***************************************************************************)
(* _calculate_enhanced_composite_score and _apply_enhanced_adjustments      *)
(***************************************************************************)
ScoreKeys ==
  <<"company_size_score", "industry_score", "website_quality_score",
    "financial_score", "market_position_score", "data_completeness_score",
    "company_maturity_score">>
\* scores.values()
score_values_of(scores) == [i \in DOMAIN ScoreKeys |-> scores[ScoreKeys[i]]]

\* np.std(values) < limit, for values in tenths and limit in points:
\* the population variance n*sum(x^2) - sum(x)^2 over n^2, against (10*limit)^2
StdBelow(values, limit) ==
  LET n == Len(values)
      sum == SumSeq(values)
      sumsq == SumSeq([i \in DOMAIN values |-> values[i] * values[i]])
  IN n * sumsq - sum * sum < (10 * limit) * (10 * limit) * n * n

\* the sum of the bonuses and penalties of _apply_enhanced_adjustments, tenths
enhanced_adjustments(scores) ==
  LET values == score_values_of(scores)
      high_scores == SelectSeq(values, LAMBDA v : v >= 850)
      positive == SelectSeq(values, LAMBDA v : v > 0)
      high_bonus == IF Len(high_scores) >= 3 THEN 80
                    ELSE IF Len(high_scores) >= 2 THEN 40 ELSE 0
      spread_bonus == IF Len(positive) >= 4
                        THEN (IF StdBelow(positive, 12) THEN 50
                              ELSE IF StdBelow(positive, 20) THEN 20 ELSE 0)
                        ELSE 0
      critical_failures ==
        Cardinality({key \in {"industry_score", "company_size_score"} : scores[key] < 400})
      website_penalty == IF scores.website_quality_score < 250 THEN 120 ELSE 0
      completeness_penalty == IF scores.data_completeness_score < 400 THEN 80 ELSE 0
      fit_bonus == IF scores.industry_score >= 800 /\ scores.company_size_score >= 800
                     THEN 60 ELSE 0
  IN high_bonus + spread_bonus - 80 * critical_failures - website_penalty
       - completeness_penalty + fit_bonus

\* the composite without the completeness factor of lines 388-390
composite_unscaled(scores) ==
  LET weighted_score ==
          scores.company_size_score * feature_weights.company_size_score
        + scores.industry_score * feature_weights.industry_attractiveness
        + scores.financial_score * feature_weights.financial_indicators
        + scores.website_quality_score * feature_weights.technology_stack
        + scores.market_position_score * feature_weights.market_position
  IN Max(Min(400 * weighted_score + 8000 * enhanced_adjustments(scores), 8000 * 1000), 0)

\* The weighted average is sum(score * weight) / total_weight with weights in
\* twentieths; the completeness factor 0.85 + 0.15 * c / 100 is (340 + 3k)/400
\* for c = 5k points.  The value before rounding, clamped to [0,100], is held
\* in 1/8000 of a tenth.
composite_unrounded(scores) ==
  LET weighted_score ==
          scores.company_size_score * feature_weights.company_size_score
        + scores.industry_score * feature_weights.industry_attractiveness
        + scores.financial_score * feature_weights.financial_indicators
        + scores.website_quality_score * feature_weights.technology_stack
        + scores.market_position_score * feature_weights.market_position
      k == scores.data_completeness_score \div 50
      base_score == weighted_score * (340 + 3 * k)
      final_score == base_score + 8000 * enhanced_adjustments(scores)
  IN Max(Min(final_score, 8000 * 1000), 0)

\* The exact value lies halfway between two tenths.  The float the code rounds
\* then lies just above or just below the tie, as the binary error of the
\* float operations that produced it falls.
IsTie(scores) == 2 * (composite_unrounded(scores) % 8000) = 8000

\* round(x, 1): to the nearest tenth; at an exact decimal tie, up iff tie_up
round_tenth(num, tie_up) ==
  IF 2 * (num % 8000) > 8000 THEN (num \div 8000) + 1
  ELSE IF 2 * (num % 8000) < 8000 THEN num \div 8000
  ELSE IF tie_up THEN (num \div 8000) + 1 ELSE num \div 8000

\* a composite that the presence of an API key raises by one point
composite_with_key(scores, tie_up) ==
  IF openai_api_key = "None"
    THEN round_tenth(composite_unrounded(scores), tie_up)
    ELSE Min(round_tenth(composite_unrounded(scores), tie_up) + 10, 1000)

_calculate_enhanced_composite_score(scores, tie_up) ==
  round_tenth(composite_unrounded(scores), tie_up)

(***************************************************************************)
(* The text generators.  A text is a sequence of tokens [t, a]: a literal   *)
(* piece t and the value a formatted into it (NA when there is none).       *)
(***************************************************************************)
Lit(t) == [t |-> t, a |-> NA]
Fmt(t, a) == [t |-> t, a |-> a]
\* "; ".join(parts)
RECURSIVE Join(_)
Join(parts) ==
  IF parts = <<>> THEN <<>>
  ELSE IF Len(parts) = 1 THEN <<parts[1]>>
  ELSE <<parts[1], Lit("; ")>> \o Join(Tail(parts))
\* the list built by a run of "if cond: parts.append(phrase)"
RECURSIVE Collect(_)
Collect(rules) ==
  IF rules = <<>> THEN <<>>
  ELSE (IF rules[1][1] THEN <<rules[1][2]>> ELSE <<>>) \o Collect(Tail(rules))

\* "; ".join(parts) if parts else default
JoinOr(parts, default) == IF parts /= <<>> THEN Join(parts) ELSE <<Lit(default)>>

_generate_enhanced_rationale(scores, row) ==
  LET size_score == scores.company_size_score
      industry_score == scores.industry_score
      financial_score == scores.financial_score
      web_score == scores.website_quality_score
      rationale_parts == Collect(<<
        <<size_score >= 850, Fmt("Optimal size (%s employees) for PE investment", row.EmployeeCount)>>,
        <<size_score < 850 /\ size_score >= 700, Fmt("Good company size (%s employees)", row.EmployeeCount)>>,
        <<size_score < 500, Fmt("Size concerns (%s employees)", row.EmployeeCount)>>,
        <<industry_score >= 850, Fmt("High-priority industry (%s)", row.Industry)>>,
        <<industry_score < 850 /\ industry_score >= 700, Fmt("Attractive industry (%s)", row.Industry)>>,
        <<industry_score < 550, Fmt("Lower-priority industry (%s)", row.Industry)>>,
        <<financial_score >= 800, Lit("Strong financial profile")>>,
        <<financial_score < 500, Lit("Limited financial data")>>,
        <<web_score >= 700, Lit("Strong digital presence")>>,
        <<web_score < 400, Lit("Weak digital footprint")>> >>)
  IN JoinOr(rationale_parts, "Standard analysis applied")

_identify_risk_factors(scores) ==
  LET risks == Collect(<<
        <<scores.company_size_score < 400, Lit("Size mismatch")>>,
        <<scores.industry_score < 500, Lit("Industry challenges")>>,
        <<scores.financial_score < 500, Lit("Financial uncertainty")>>,
        <<scores.data_completeness_score < 600, Lit("Limited data")>> >>)
  IN JoinOr(risks, "Low risk profile")

_identify_growth_indicators(scores, row) ==
  LET indicators(growth) == Collect(<<
        <<scores.industry_score >= 850, Lit("High-growth industry")>>,
        <<scores.market_position_score >= 700, Lit("Strong market position")>>,
        <<growth.k /= "failed" /\ growth.n > 25, Fmt("High growth rate (%s%%)", growth)>> >>)
  IN JoinOr(indicators(float_of(row.Growth)), "Standard growth potential")

(***************************************************************************)
(* _apply_relative_scoring and the percentile rank                          *)
(***************************************************************************)
\* the values of a sequence in ascending order
Sorted(values) == SortSeq(values, LAMBDA a, b : a < b)

\* np.percentile(a, q), linear interpolation, times 100: with the sorted
\* values a[0..n-1] and (n-1)*q = 100*lo + r, it is
\* a[lo] + (r/100) * (a[lo+1] - a[lo]).
np_percentile(values, q) ==
  LET a == Sorted(values)
      n == Len(a)
      lo == ((n - 1) * q) \div 100
      r == ((n - 1) * q) % 100
      hi == IF lo + 1 < n THEN lo + 1 ELSE lo
  IN a[lo + 1] * (100 - r) + a[hi + 1] * r

\* percentiles = np.percentile(scores, [10, 25, 50, 75, 90]), each times 100
percentiles_of(values) ==
  <<np_percentile(values, 10), np_percentile(values, 25), np_percentile(values, 50),
    np_percentile(values, 75), np_percentile(values, 90)>>

\* adjust_score without the cap at 100 in the top band
adjust_score_uncapped(score, pcts) ==
  IF 100 * score >= pcts[5] THEN score + 50
  ELSE IF 100 * score >= pcts[4] THEN Min(score + 20, 1000)
  ELSE IF 100 * score <= pcts[1] THEN Max(score - 50, 0)
  ELSE IF 100 * score <= pcts[2] THEN Max(score - 20, 0)
  ELSE score

\* adjust_score with the sign of the top band's nudge reversed
adjust_score_top_penalised(score, pcts) ==
  IF 100 * score >= pcts[5] THEN Max(score - 50, 0)
  ELSE IF 100 * score >= pcts[4] THEN Min(score + 20, 1000)
  ELSE IF 100 * score <= pcts[1] THEN Max(score - 50, 0)
  ELSE IF 100 * score <= pcts[2] THEN Max(score - 20, 0)
  ELSE score

\* adjust_score with strict comparisons against p90 and p75
adjust_score_strict(score, pcts) ==
  IF 100 * score > pcts[5] THEN Min(score + 50, 1000)
  ELSE IF 100 * score > pcts[4] THEN Min(score + 20, 1000)
  ELSE IF 100 * score <= pcts[1] THEN Max(score - 50, 0)
  ELSE IF 100 * score <= pcts[2] THEN Max(score - 20, 0)
  ELSE score

\* adjust_score, the closure over percentiles
adjust_score(score, pcts) ==
  IF 100 * score >= pcts[5] THEN Min(score + 50, 1000)
  ELSE IF 100 * score >= pcts[4] THEN Min(score + 20, 1000)
  ELSE IF 100 * score <= pcts[1] THEN Max(score - 50, 0)
  ELSE IF 100 * score <= pcts[2] THEN Max(score - 20, 0)
  ELSE score

\* df['Score'].apply(adjust_score) for the column and the percentiles of line 434
apply_adjust(column, pcts) == [i \in DOMAIN column |-> adjust_score(column[i], pcts)]

\* the rank with method 'min': tied values all take their lowest position
rank_pct_min(column) ==
  LET n == Len(column)
      below(v) == Cardinality({p \in DOMAIN column : column[p] < v})
  IN [i \in DOMAIN column |-> [num |-> 100 * (below(column[i]) + 1), den |-> n]]

\* the rank with method 'first': tied values are ranked in the order of their
\* rows
rank_pct_first(column) ==
  LET n == Len(column)
      position(i) ==
        Cardinality({p \in DOMAIN column : column[p] < column[i]})
          + Cardinality({p \in 1..i : column[p] = column[i]})
  IN [i \in DOMAIN column |-> [num |-> 100 * position(i), den |-> n]]

\* Series.rank(pct=True) * 100: the values are sorted, the sorted positions
\* 1..n are the ranks, tied values share the average of their positions, and
\* the rank is divided by n.  The result is the exact fraction num / den.
rank_pct(column) ==
  LET n == Len(column)
      a == Sorted(column)
      positions(v) == {p \in 1..n : a[p] = v}
      possum(v) == SumSeq(SelectSeq([p \in 1..n |-> p], LAMBDA p : a[p] = v))
  IN [i \in DOMAIN column |->
        [num |-> 100 * possum(column[i]),
         den |-> Cardinality(positions(column[i])) * n]]

(***************************************************************************)
(* The tables the model scores.  A lead is a row of the input table: one    *)
(* cell per recognised field.                                               *)
(***************************************************************************)
\* the first sample row of the module's __main__ block
TechCorp ==
  [Company |-> Str(<<"T","e","c","h","C","o","r","p"," ","I","n","c">>),
   Industry |-> Str(<<"T","e","c","h","n","o","l","o","g","y">>),
   Website |-> Str(<<"t","e","c","h","c","o","r","p",".","c","o","m">>),
   EmployeeCount |-> Num(150),
   Revenue |-> Num(25000000),
   Growth |-> NA,
   Profit |-> NA,
   Founded |-> NA,
   Location |-> NA]

\* a strong lead whose composite stays below the cap
DataPlatform ==
  [Company |-> Str(<<"A","c","m","e">>),
   Industry |-> Str(<<"S","a","a","S">>),
   Website |-> Str(<<"d","a","t","a","p","l","a","t","f","o","r","m",".","i","o">>),
   EmployeeCount |-> Num(150),
   Revenue |-> Num(25000000),
   Growth |-> NA,
   Profit |-> NA,
   Founded |-> NA,
   Location |-> NA]

\* a weak lead; its composite is an exact decimal tie (1.75)
GovShrinking ==
  [Company |-> Str(<<"A","c","m","e">>),
   Industry |-> Str(<<"G","o","v","e","r","n","m","e","n","t">>),
   Website |-> NA,
   EmployeeCount |-> NA,
   Revenue |-> NA,
   Growth |-> Num(-20),
   Profit |-> Num(-1),
   Founded |-> Num(2011),
   Location |-> NA]

\* a weaker lead
GovPartners ==
  [Company |-> Str(<<"A"," ","&"," ","B"," ","C","o",".">>),
   Industry |-> Str(<<"G","o","v","e","r","n","m","e","n","t">>),
   Website |-> NA,
   EmployeeCount |-> NA,
   Revenue |-> NA,
   Growth |-> Num(-20),
   Profit |-> Num(-1),
   Founded |-> Num(2011),
   Location |-> NA]

\* only Company is set
OnlyCompany ==
  [Company |-> Str(<<"A","c","m","e">>),
   Industry |-> NA,
   Website |-> NA,
   EmployeeCount |-> NA,
   Revenue |-> NA,
   Growth |-> NA,
   Profit |-> NA,
   Founded |-> NA,
   Location |-> NA]

\* a lead whose company age leaves the 5..15 bucket when the year turns
YoungGrower ==
  [Company |-> Str(<<"A","c","m","e">>),
   Industry |-> NA,
   Website |-> NA,
   EmployeeCount |-> NA,
   Revenue |-> NA,
   Growth |-> Num(120),
   Profit |-> Num(5),
   Founded |-> Num(2011),
   Location |-> NA]

\* an unparsable website and an unparsable employee count
BadWebsite ==
  [Company |-> Str(<<"A","c","m","e">>),
   Industry |-> Str(<<"f","i","n","t","e","c","h">>),
   Website |-> Str(<<"h","t","t","p",":","/","/","[","b","a","d">>),
   EmployeeCount |-> Str(<<"n","/","a">>),
   Revenue |-> NA,
   Growth |-> NA,
   Profit |-> NA,
   Founded |-> Num(2011),
   Location |-> NA]

\* the last sample row of the module's __main__ block
SmallConsulting ==
  [Company |-> Str(<<"S","m","a","l","l"," ","C","o","n","s","u","l","t","i","n","g">>),
   Industry |-> Str(<<"P","r","o","f","e","s","s","i","o","n","a","l"," ","S","e","r","v","i","c","e","s">>),
   Website |-> Str(<<"c","o","n","s","u","l","t","i","n","g",".","b","i","z">>),
   EmployeeCount |-> Num(12),
   Revenue |-> Num(800000),
   Growth |-> NA,
   Profit |-> NA,
   Founded |-> NA,
   Location |-> NA]

\* a row with a non-scalar Industry cell
ListCell ==
  [Company |-> Str(<<"A","c","m","e">>),
   Industry |-> List,
   Website |-> Str(<<"t","e","c","h","c","o","r","p",".","c","o","m">>),
   EmployeeCount |-> Num(150),
   Revenue |-> NA,
   Growth |-> NA,
   Profit |-> NA,
   Founded |-> NA,
   Location |-> NA]

Core == {GovPartners, GovShrinking, DataPlatform, TechCorp}
Leads == Core \cup {OnlyCompany, YoungGrower, BadWebsite, SmallConsulting, ListCell}

RECURSIVE SeqsUpTo(_, _)
SeqsUpTo(S, n) ==
  IF n = 0 THEN {<<>>}
  ELSE LET shorter == SeqsUpTo(S, n - 1)
       IN shorter \cup {Append(q, e) : q \in {p \in shorter : Len(p) = n - 1}, e \in S}

\* The batches: every table of up to MaxBatch leads, and every table of up to
\* MaxCore core leads (five rows are the fewest for which the bands [p75, p90)
\* and (p10, p25] of the normalisation hold a row).
SmallBatches == SeqsUpTo(Leads, MaxBatch)
Batches == SmallBatches \cup SeqsUpTo(Core, MaxCore)

\* Tables that already have a column named Score when they are passed in (a
\* table scored before, exported and loaded again): the rows of a small batch,
\* each with the Score 87.0 of the earlier run.
WithScoreColumn(table) == [i \in DOMAIN table |-> ("Score" :> 870) @@ table[i]]
ScoredBefore == {WithScoreColumn(table) : table \in SeqsUpTo({TechCorp, ListCell}, MaxBatch) \ {<<>>}}

\* datetime.now().year when the model starts
BaseYear == 2026
Years == BaseYear..(BaseYear + MaxTicks)
\* openai_api_key: None or a key
Keys == {"None", "sk-key"}

(***************************************************************************)
(* score_leads.                                                             *)
(***************************************************************************)
\* df_scored = df.copy() followed by lines 72-79: every score column is set to
\* 0, scoring_rationale to ''
score_columns ==
  [company_size_score |-> 0, industry_score |-> 0, website_quality_score |-> 0,
   financial_score |-> 0, market_position_score |-> 0, composite_score |-> 0,
   Score |-> 0, scoring_rationale |-> Str(<<>>), risk_factors |-> Num(0),
   growth_indicators |-> Num(0)]
\* df_scored[col] = ... creates the column, or replaces a column of that name
\* the table already has
new_frame_row(lead) == score_columns @@ lead
new_frame(table) == [i \in DOMAIN table |-> new_frame_row(table[i])]

\* The sub-scores of every lead of the model in every year of the model,
\* computed once: scores_of(row, year) is _score_individual_lead(row, year).
lead_of(row) == [f \in Fields |-> row[f]]
ScoreTable == [lead \in Leads, year \in Years |-> _score_individual_lead(lead, year)]
scores_of(row, current_year) == ScoreTable[lead_of(row), current_year]

\* f"Scoring error: {str(e)}"
scoring_error(cause) == Str(<<Lit("Scoring error: "), Lit(cause)>>)

\* write_scores that also writes the parsed employee count back into the row
write_scores_and_count(row, scores) ==
  [c \in DOMAIN row |->
     IF c \in DOMAIN scores THEN scores[c]
     ELSE IF c = "EmployeeCount" THEN Num(emp_count_of(row))
     ELSE row[c]]

\* lines 85-87: each computed score whose key is a column of the table
write_scores(row, scores) ==
  [c \in DOMAIN row |-> IF c \in DOMAIN scores THEN scores[c] ELSE row[c]]

\* lines 99-102: the except branch
except_branch(row, cause) ==
  [row EXCEPT !.Score = 450, !.scoring_rationale = scoring_error(cause)]

\* One iteration of the loop of lines 81-102 on a row: the row as the
\* iteration leaves it.  label is the kind of the row's index label: the
\* message of line 97 computes idx+1, which raises TypeError on a text label.
loop_body(row, scores, label, tie_up) ==
  LET logged(written) ==
        IF label = "text"
          THEN except_branch(written, "can only concatenate str (not \"int\") to str")
          ELSE written
  IN IF individual_lead_raises(row)
       THEN except_branch(row, "The truth value of an array with more than one element is ambiguous. Use a.any() or a.all()")
       ELSE logged([write_scores(row, scores) EXCEPT
                      !.Score = _calculate_enhanced_composite_score(scores, tie_up),
                      !.scoring_rationale = Str(_generate_enhanced_rationale(scores, row)),
                      !.risk_factors = Str(_identify_risk_factors(scores)),
                      !.growth_indicators = Str(_identify_growth_indicators(scores, row))])
score_row(row, current_year, label, tie_up) ==
  loop_body(row, scores_of(row, current_year), label, tie_up)

Column(table, c) == [i \in DOMAIN table |-> table[i][c]]

\* a normalisation that adjusts one row after the other and takes the
\* percentiles anew, from the partly adjusted column, for each row
RECURSIVE rolling_from(_, _)
rolling_from(table, i) ==
  IF i > Len(table) THEN table
  ELSE rolling_from(
         [table EXCEPT ![i].Score =
            adjust_score(table[i].Score, percentiles_of(Column(table, "Score")))],
         i + 1)
_apply_relative_scoring_rolling(table) == rolling_from(table, 1)

\* line 104: the table _apply_relative_scoring returns
_apply_relative_scoring(table) ==
  LET column == Column(table, "Score")
      adjusted == apply_adjust(column, percentiles_of(column))
  IN [i \in DOMAIN table |-> [table[i] EXCEPT !.Score = adjusted[i]]]

\* line 105: the score_percentile column
with_percentile(table) ==
  LET pct == rank_pct(Column(table, "Score"))
  IN [i \in DOMAIN table |-> ("score_percentile" :> pct[i]) @@ table[i]]

vars ==
  <<df, index, now_year, call_year, calls, openai_api_key, pc, df_scored, idx, lead_scores,
    score_column, percentiles, round_up, returned>>

InitWith(tables) ==
  /\ df \in tables
  /\ index \in {"range", "text"}
  /\ now_year = BaseYear
  /\ call_year = BaseYear
  /\ calls = 0
  /\ openai_api_key = "None"
  /\ pc = "idle"
  /\ df_scored = <<>>
  /\ idx = 0
  /\ lead_scores = <<>>
  /\ score_column = <<>>
  /\ percentiles = <<>>
  /\ round_up = <<>>
  /\ returned = <<>>

Init == InitWith(Batches \cup ScoredBefore)

\* the module-level score_leads: a new scorer, then lines 67-79
Call(key) ==
  /\ pc \in {"idle", "returned", "raised"}
  /\ calls' = calls + 1
  /\ call_year' = now_year
  /\ openai_api_key' = key
  /\ df_scored' = new_frame(df)
  /\ idx' = 1
  /\ lead_scores' = <<>>
  /\ score_column' = <<>>
  /\ percentiles' = <<>>
  /\ pc' = "loop"
  /\ UNCHANGED <<df, index, now_year, round_up, returned>>

\* the first call passes no key (the parameter's default)
FirstCall == calls = 0 /\ Call("None")
\* the caller scores the same table again, with any key
SecondCall == calls = 1 /\ \E key \in Keys : Call(key)

\* one iteration of the loop, lines 81-102, for the dict scores that line 83
\* computes (used when nothing raises before)
ScoreRowWith(scores) ==
  /\ pc = "loop"
  /\ idx <= Len(df_scored)
  /\ LET tied(sc) == ~individual_lead_raises(df_scored[idx]) /\ IsTie(sc)
         choose(sc, tie) ==
           \E up \in BOOLEAN :
             /\ IF tie
                  THEN (sc \in DOMAIN round_up => up = round_up[sc])
                  ELSE up
             /\ round_up' = IF tie /\ sc \notin DOMAIN round_up
                              THEN (sc :> up) @@ round_up ELSE round_up
             /\ df_scored' =
                  [df_scored EXCEPT ![idx] = loop_body(df_scored[idx], sc, index, up)]
             /\ lead_scores' =
                  IF individual_lead_raises(df_scored[idx]) THEN lead_scores ELSE sc
         step(sc) == choose(sc, tied(sc))
     IN step(scores)
  /\ idx' = idx + 1
  /\ UNCHANGED <<df, index, now_year, call_year, calls, openai_api_key, pc, score_column,
                 percentiles, returned>>

\* the iteration on a row of the batches, its sub-scores read from ScoreTable
ScoreRow == ScoreRowWith(scores_of(df_scored[idx], now_year))

\* line 104 on a table with rows: _apply_relative_scoring
ApplyRelative ==
  /\ pc = "loop"
  /\ idx > Len(df_scored)
  /\ Len(df_scored) > 0
  /\ score_column' = Column(df_scored, "Score")
  /\ percentiles' = percentiles_of(score_column')
  /\ df_scored' = _apply_relative_scoring(df_scored)
  /\ pc' = "rank"
  /\ UNCHANGED <<df, index, lead_scores, now_year, call_year, calls, openai_api_key, idx, round_up, returned>>

\* line 104 on an empty table: np.percentile of an empty array raises
\* IndexError (numpy 1.22 and later), which score_leads does not catch
ApplyRelativeEmpty ==
  /\ pc = "loop"
  /\ idx > Len(df_scored)
  /\ Len(df_scored) = 0
  /\ pc' = "raised"
  /\ UNCHANGED <<df, index, lead_scores, now_year, call_year, calls, openai_api_key, df_scored, idx,
                 score_column, percentiles, round_up, returned>>

\* lines 105-112: the percentile rank, and the return
Return ==
  /\ pc = "rank"
  /\ df_scored' = with_percentile(df_scored)
  /\ returned' = Append(returned, [table |-> df_scored', from |-> call_year, year |-> now_year])
  /\ pc' = "returned"
  /\ UNCHANGED <<df, index, lead_scores, now_year, call_year, calls, openai_api_key, idx, score_column,
                 percentiles, round_up>>

\* the calendar year turns, at any moment
NewYear ==
  /\ now_year < BaseYear + MaxTicks
  /\ now_year' = now_year + 1
  /\ UNCHANGED <<df, index, lead_scores, call_year, calls, openai_api_key, pc, df_scored, idx,
                 score_column, percentiles, round_up, returned>>

\* one call of score_leads on a table
Next ==
  \/ FirstCall
  \/ ScoreRow
  \/ ApplyRelative
  \/ ApplyRelativeEmpty
  \/ Return

Spec == Init /\ [][Next]_vars

\* two calls of score_leads on the same table, the year turning or not
InitTwice == InitWith(SmallBatches)
NextTwice ==
  \/ FirstCall
  \/ SecondCall
  \/ ScoreRow
  \/ ApplyRelative
  \/ ApplyRelativeEmpty
  \/ Return
  \/ NewYear

SpecTwice == InitTwice /\ [][NextTwice]_vars

\* the caller scores the rows of the table again, in any order: the
\* module-level score_leads on the reordered table
CallPermuted ==
  /\ calls = 1
  /\ pc \in {"returned", "raised"}
  /\ \E order \in Permutations(DOMAIN df) : df' = [i \in DOMAIN df |-> df[order[i]]]
  /\ calls' = calls + 1
  /\ call_year' = now_year
  /\ openai_api_key' = "None"
  /\ df_scored' = new_frame(df')
  /\ idx' = 1
  /\ lead_scores' = <<>>
  /\ score_column' = <<>>
  /\ percentiles' = <<>>
  /\ pc' = "loop"
  /\ UNCHANGED <<index, now_year, round_up, returned>>

\* a call on a table and a call on the same rows in another order, the year
\* turning or not
NextPermuted ==
  \/ FirstCall
  \/ CallPermuted
  \/ ScoreRow
  \/ ApplyRelative
  \/ ApplyRelativeEmpty
  \/ Return
  \/ NewYear

SpecPermuted == InitTwice /\ [][NextPermuted]_vars

(***************************************************************************)
(* Lines 104-105 alone, on any Score column: the state in which the loop    *)
(* has given every row its composite, each row reduced to its Score, a      *)
(* value of ScoreValues (tenths).                                           *)
(***************************************************************************)
ScoreValues == {0, 13, 17, 500, 997, 1000}
Columns == SeqsUpTo(ScoreValues, MaxColumn) \ {<<>>}
score_only(column) == [i \in DOMAIN column |-> [Score |-> column[i]]]

InitRel ==
  /\ df_scored \in {score_only(column) : column \in Columns}
  /\ df = df_scored
  /\ index = "range"
  /\ now_year = BaseYear
  /\ call_year = BaseYear
  /\ calls = 1
  /\ openai_api_key = "None"
  /\ pc = "loop"
  /\ idx = Len(df_scored) + 1
  /\ lead_scores = <<>>
  /\ score_column = <<>>
  /\ percentiles = <<>>
  /\ round_up = <<>>
  /\ returned = <<>>

NextRel ==
  \/ ApplyRelative
  \/ Return

SpecRel == InitRel /\ [][NextRel]_vars

(***************************************************************************)
(* The loop body alone, on a single record: the state in which score_leads  *)
(* has built the frame of a one-row table and enters the loop.              *)
(***************************************************************************)
\* leads in which only Company is set: every other field is missing or the
\* empty text
CompanyNames ==
  { <<"A","c","m","e">>,
    <<"A"," ","&"," ","B"," ","C","o",".">>,
    <<"T","o","p"," ","D","a","t","a"," ","C","l","o","u","d">>,
    <<"M","a","r","k","e","t"," ","L","e","a","d","e","r"," ","A","I">> }
CompanyOnly ==
  {[f \in Fields |-> IF f = "Company" THEN Str(name) ELSE rest[f]] :
     name \in CompanyNames, rest \in [Fields -> {NA, Str(<<>>)}]}

\* leads that differ in EmployeeCount alone: every integer from -2 to
\* MaxEmployees, a missing value, and texts that int() takes or refuses
EmployeeCounts ==
  {Num(e) : e \in (0 - 2)..MaxEmployees}
    \cup {NA, Str(<<>>), Str(<<"n","/","a">>), Str(<<"7","5">>), Str(<<"7","5",".","0">>)}
BySize == {[OnlyCompany EXCEPT !.EmployeeCount = c] : c \in EmployeeCounts}

\* leads that differ in Industry alone: every name of the industry table as
\* declared
TableNames == {target_industries[i][1] : i \in DOMAIN target_industries}
ByTableName == {[OnlyCompany EXCEPT !.Industry = Str(name)] : name \in TableNames}

\* leads that differ in Website alone: well-formed addresses, and texts that
\* are no address
Websites ==
  { <<"t","e","c","h","c","o","r","p",".","c","o","m">>,
    <<"d","a","t","a","p","l","a","t","f","o","r","m",".","i","o">>,
    <<"x","-","1",".","b","i","z">>,
    <<"h","t","t","p","s",":","/","/","w","w","w",".","a","c","m","e",".","o","r","g","/","a","b","o","u","t">>,
    <<"h","t","t","p",":","/","/","[","b","a","d">>,
    <<"a","]","b",".","c","o","m">>,
    <<"n","o","t"," ","a"," ","w","e","b","s","i","t","e">>,
    <<"l","o","c","a","l","h","o","s","t">>,
    <<"?","?","?">> }
ByWebsite == {[OnlyCompany EXCEPT !.Website = Str(text)] : text \in Websites}

\* leads that differ in Industry alone: texts that are no name of the table
Industries ==
  { <<"M","e","d","i","c","a","l"," ","R","e","t","a","i","l"," ","D","e","v","i","c","e","s">>,
    <<"T","e","c","h","n","o","l","o","g","y"," ","H","e","a","l","t","h","c","a","r","e">>,
    <<"D","e","v","i","c","e","s"," ","M","e","d","i","c","a","l">>,
    <<"T","e","c","h">>,
    <<"M","i","n","i","n","g">>,
    <<"B","u","s","i","n","e","s","s"," ","C","o","n","s","u","l","t","i","n","g"," ","S","e","r","v","i","c","e","s">>,
    <<"g","o","v","e","r","n","m","e","n","t"," ","r","e","l","a","t","i","o","n","s">>,
    <<"H","e","a","l","t","h"," ","c","a","r","e">>,
    <<"R","e","t","a","i","l"," ","S","o","f","t","w","a","r","e">> }
ByIndustry == {[OnlyCompany EXCEPT !.Industry = Str(text)] : text \in Industries}

\* leads of every profile: each field missing or one of a few values
Profiles ==
  {[Company |-> Str(<<"A","c","m","e">>), Industry |-> industry, Website |-> website,
    EmployeeCount |-> employees, Revenue |-> revenue, Growth |-> growth,
    Profit |-> profit, Founded |-> founded, Location |-> location] :
     industry \in {NA, Str(<<"S","a","a","S">>), Str(<<"G","o","v","e","r","n","m","e","n","t">>)},
     website \in {NA, Str(<<"t","e","c","h","c","o","r","p",".","c","o","m">>),
                  Str(<<"h","t","t","p",":","/","/","[","b","a","d">>)},
     employees \in {NA, Num(150), Num(7000)},
     revenue \in {NA, Num(25000000), Num(200000000)},
     growth \in {NA, Num(0 - 20), Num(120)},
     profit \in {NA, Num(5)},
     founded \in {NA, Num(2011)},
     location \in {NA, Str(<<"N","Y","C">>)}}

LeadInputs ==
  CompanyOnly \cup BySize \cup ByTableName \cup ByWebsite \cup ByIndustry \cup Profiles

InitLead ==
  /\ df \in {<<lead>> : lead \in LeadInputs}
  /\ index = "range"
  /\ now_year = BaseYear
  /\ call_year = BaseYear
  /\ calls = 1
  /\ openai_api_key = "None"
  /\ pc = "loop"
  /\ df_scored = new_frame(df)
  /\ idx = 1
  /\ lead_scores = <<>>
  /\ score_column = <<>>
  /\ percentiles = <<>>
  /\ round_up = <<>>
  /\ returned = <<>>

\* the iteration on any record, its sub-scores computed by line 83
ScoreLead == ScoreRowWith(_score_individual_lead(lead_of(df_scored[idx]), now_year))

NextLead == ScoreLead

SpecLead == InitLead /\ [][NextLead]_vars

(***************************************************************************)
(* Properties.                                                              *)
(***************************************************************************)
\* the tables returned so far
Outputs == {returned[k].table : k \in DOMAIN returned}
\* [0,100], in tenths
InRange(v) == 0 <= v /\ v <= 1000
WrittenScores ==
  {"company_size_score", "industry_score", "website_quality_score",
   "financial_score", "market_position_score"}
\* the scoring of row i of the batch raised: inside _score_individual_lead,
\* or at line 97
row_raised(i) == individual_lead_raises(df[i]) \/ index = "text"

\* C1: in every returned table, every written sub-score column and the final
\* Score of every row, failed rows included, lie in [0,100]; the unwritten
\* data_completeness_score and company_maturity_score of every row of the
\* batch lie in [0,100] too, in every year.
C1_ScoresInRange ==
  /\ \A t \in Outputs : \A i \in DOMAIN t :
       /\ \A c \in WrittenScores : InRange(t[i][c])
       /\ InRange(t[i].Score)
  /\ \A i \in DOMAIN df : \A year \in Years :
       /\ InRange(scores_of(df[i], year).data_completeness_score)
       /\ InRange(scores_of(df[i], year).company_maturity_score)

\* a returned table in which the cap at 100 held a top-band row back, next to
\* a row whose scoring raised
C1_CapNextToFailedRow ==
  /\ pc = "returned"
  /\ \E i, j \in DOMAIN df_scored :
       /\ score_column[i] + 50 > 1000
       /\ df_scored[i].Score = 1000
       /\ individual_lead_raises(df[j])

\* C2 (as stated): score_leads is total: no call raises, and every returned
\* table has exactly one row per input row, in the same order.
C2_Total ==
  /\ pc /= "raised"
  /\ \A t \in Outputs :
       /\ Len(t) = Len(df)
       /\ \A i \in DOMAIN t : lead_of(t[i]) = lead_of(df[i])

\* the text begins with "Scoring error:"
StartsWithError(cell) ==
  cell.k = "str" /\ cell.s /= <<>> /\ cell.s[1] = Lit("Scoring error: ")

\* C3 (as stated): in every returned table, every row whose scoring raised has
\* Score = 45 and a scoring_rationale that begins with "Scoring error:".
C3_FailedRowsScore45 ==
  \A t \in Outputs : \A i \in DOMAIN t :
    row_raised(i) => t[i].Score = 450 /\ StartsWithError(t[i].scoring_rationale)

\* the calendar year did not turn while the call ran
within_year(call) == call.from = call.year

\* C4 (amended): two calls of score_leads on the same batch that run within
\* one and the same calendar year return identical tables, whatever key the
\* scorer instance of each call was given.
C4_RepeatableWithinYear ==
  \A j, k \in DOMAIN returned :
    (within_year(returned[j]) /\ within_year(returned[k])
       /\ returned[j].year = returned[k].year)
      => returned[j].table = returned[k].table

\* C4 (as stated): two calls of score_leads on the same batch return identical
\* tables.
C4_Repeatable ==
  \A j, k \in DOMAIN returned : returned[j].table = returned[k].table

\* two calls returned within the same year, the second with a key, on a batch
\* with a row whose Founded year is read against the clock
C4_TwoCallsOneYear ==
  /\ Len(returned) = 2
  /\ within_year(returned[1]) /\ within_year(returned[2])
  /\ returned[1].year = returned[2].year
  /\ openai_api_key /= "None"
  /\ \E i \in DOMAIN df : df[i].Founded /= NA /\ ~row_raised(i)

\* C5: the normalisation never inverts rank: a row whose composite before the
\* adjustment is greater than another's has a final Score at least the
\* other's.
C5_NoRankInversion ==
  pc \in {"rank", "returned"} =>
    \A i, j \in DOMAIN score_column :
      score_column[i] > score_column[j] => df_scored[i].Score >= df_scored[j].Score

\* two rows with different composites that the cap or the floor brings to the
\* same final Score
C5_CapMergesRows ==
  /\ pc = "rank"
  /\ \E i, j \in DOMAIN score_column :
       /\ score_column[i] > score_column[j]
       /\ df_scored[i].Score = df_scored[j].Score

\* the final Score of composite s for the percentiles p = <<p10, p25, p50,
\* p75, p90>> (times 100), every band capped at 100 and floored at 0
BandScore(s, p) ==
  IF 100 * s >= p[5] THEN Min(s + 50, 1000)
  ELSE IF p[4] <= 100 * s /\ 100 * s < p[5] THEN Min(s + 20, 1000)
  ELSE IF 100 * s <= p[1] THEN Max(s - 50, 0)
  ELSE IF p[1] < 100 * s /\ 100 * s <= p[2] THEN Max(s - 20, 0)
  ELSE s

\* the same with s+2 and s-2 as the claim states them, neither capped nor
\* floored
StatedBandScore(s, p) ==
  IF 100 * s >= p[5] THEN Min(s + 50, 1000)
  ELSE IF p[4] <= 100 * s /\ 100 * s < p[5] THEN s + 20
  ELSE IF 100 * s <= p[1] THEN Max(s - 50, 0)
  ELSE IF p[1] < 100 * s /\ 100 * s <= p[2] THEN s - 20
  ELSE s

\* the batch of composites [92, 78, 65, 50, 30], normalised
ExampleBatch == <<920, 780, 650, 500, 300>>
ExampleScores == apply_adjust(ExampleBatch, percentiles_of(ExampleBatch))

\* C6 (amended): with p10, p25, p75, p90 the linearly interpolated percentiles
\* of all composites of the batch, the final Score of a row of composite s is
\* min(s+5,100) if s >= p90; min(s+2,100) if p75 <= s < p90; max(s-5,0) if
\* s <= p10; max(s-2,0) if p10 < s <= p25; s otherwise.  The composites
\* [92,78,65,50,30] give 97 to the top row and 25 to the bottom row.
C6_BandFormula ==
  /\ ExampleScores[1] = 970
  /\ ExampleScores[5] = 250
  /\ pc \in {"rank", "returned"} =>
       /\ percentiles = percentiles_of(score_column)
       /\ \A i \in DOMAIN score_column :
            df_scored[i].Score = BandScore(score_column[i], percentiles)

\* C6 (as stated): the same, with s+2 if p75 <= s < p90 and s-2 if
\* p10 < s <= p25.
C6_BandFormulaAsStated ==
  /\ ExampleScores[1] = 970
  /\ ExampleScores[5] = 250
  /\ pc \in {"rank", "returned"} =>
       /\ percentiles = percentiles_of(score_column)
       /\ \A i \in DOMAIN score_column :
            df_scored[i].Score = StatedBandScore(score_column[i], percentiles)

\* a row of the band [p75, p90) whose composite plus 2 exceeds 100, and a row
\* of the band (p10, p25] whose composite minus 2 is negative
C6_MiddleBandsClamped ==
  /\ pc = "rank"
  /\ \E i \in DOMAIN score_column :
       /\ percentiles[4] <= 100 * score_column[i]
       /\ 100 * score_column[i] < percentiles[5]
       /\ score_column[i] + 20 > 1000
       /\ df_scored[i].Score = 1000
  /\ \E i \in DOMAIN score_column :
       /\ percentiles[1] < 100 * score_column[i]
       /\ 100 * score_column[i] <= percentiles[2]
       /\ score_column[i] < 20
       /\ df_scored[i].Score = 0

\* C7: the normalisation is a barrier: the step that adjusts the Scores is
\* taken when every row of the batch has its composite (45 for a row whose
\* scoring raised), and adjusts every row with the percentiles of the complete
\* column of composites as it stood before the step; no other step changes
\* the Score of a row that has its composite.
C7_Barrier ==
  [][IF pc = "loop" /\ pc' = "rank"
       THEN /\ idx > Len(df_scored)
            /\ \A j \in DOMAIN df_scored :
                 df_scored'[j].Score =
                   adjust_score(df_scored[j].Score,
                                percentiles_of(Column(df_scored, "Score")))
       ELSE \A i \in DOMAIN df_scored :
              i < idx => /\ i \in DOMAIN df_scored'
                         /\ df_scored'[i].Score = df_scored[i].Score]_vars

\* a normalised batch of three rows or more, with a row whose scoring raised
\* and contributed 45, and a row whose Score the step changed
C7_NormalisedWithFailedRow ==
  /\ pc = "rank"
  /\ Len(df_scored) >= 3
  /\ \E i, j \in DOMAIN df_scored :
       /\ row_raised(i)
       /\ score_column[i] = 450
       /\ df_scored[j].Score /= score_column[j]

\* 100 * rank / n, for the rank that gives tied values the average of the
\* positions they span: (values below v) + ((values equal to v) + 1) / 2
IsAverageRankPct(pct, column, v) ==
  pct.num * 2 * Len(column) =
    100 * (2 * Cardinality({p \in DOMAIN column : column[p] < v})
             + Cardinality({p \in DOMAIN column : column[p] = v}) + 1) * pct.den
PctLess(a, b) == a.num * b.den < b.num * a.den

\* C8: score_percentile of every row of the returned table is 100 * rank / n
\* for the average rank of the row's final Score in the batch; a higher final
\* Score never has a lower score_percentile, and equal final Scores have equal
\* score_percentile.
C8_AverageRankPercentile ==
  pc = "returned" =>
    \A i \in DOMAIN df_scored :
      /\ IsAverageRankPct(df_scored[i].score_percentile,
                          Column(df_scored, "Score"), df_scored[i].Score)
      /\ \A j \in DOMAIN df_scored :
           /\ df_scored[i].Score > df_scored[j].Score =>
                ~PctLess(df_scored[i].score_percentile, df_scored[j].score_percentile)
           /\ df_scored[i].Score = df_scored[j].Score =>
                /\ ~PctLess(df_scored[i].score_percentile, df_scored[j].score_percentile)
                /\ ~PctLess(df_scored[j].score_percentile, df_scored[i].score_percentile)

\* a returned table with two rows tied on a Score that is not the lowest
C8_TiedAboveAnother ==
  /\ pc = "returned"
  /\ \E i, j, k \in DOMAIN df_scored :
       /\ i /= j
       /\ df_scored[i].Score = df_scored[j].Score
       /\ df_scored[k].Score < df_scored[i].Score

\* the columns ScoredLead lists after the original fields
ScoredLeadColumns ==
  {"company_size_score", "industry_score", "website_quality_score",
   "financial_score", "market_position_score", "data_completeness_score",
   "company_maturity_score", "Score", "scoring_rationale", "risk_factors",
   "growth_indicators", "score_percentile"}

\* C9 (as stated): every row of the output carries the seven sub-scores,
\* Score, scoring_rationale, risk_factors, growth_indicators and
\* score_percentile beside the original fields, and no other column.
C9_ScoredLeadColumns ==
  \A t \in Outputs : \A i \in DOMAIN t : DOMAIN t[i] = Fields \cup ScoredLeadColumns

RiskPhrases ==
  {"Size mismatch", "Industry challenges", "Financial uncertainty", "Limited data"}
GrowthPhrases ==
  {"High-growth industry", "Strong market position", "High growth rate (%s%%)"}
RationalePhrases ==
  {"Optimal size (%s employees) for PE investment", "Good company size (%s employees)",
   "Size concerns (%s employees)", "High-priority industry (%s)",
   "Attractive industry (%s)", "Lower-priority industry (%s)",
   "Strong financial profile", "Limited financial data", "Strong digital presence",
   "Weak digital footprint"}
\* the cell holds a "; "-joined list of phrases of the set, or the fallback
IsGenerated(cell, phrases, fallback) ==
  /\ cell.k = "str"
  /\ \/ cell.s = <<Lit(fallback)>>
     \/ /\ Len(cell.s) % 2 = 1
        /\ \A p \in DOMAIN cell.s :
             IF p % 2 = 1 THEN cell.s[p].t \in phrases ELSE cell.s[p] = Lit("; ")

\* C10 (as stated): in every output row risk_factors and growth_indicators are
\* each a "; "-joined list of triggered phrases or the generator's fallback
\* phrase, and so is scoring_rationale in a row that was scored without
\* failure; none is left at its initial placeholder.
C10_GeneratedTexts ==
  \A t \in Outputs : \A i \in DOMAIN t :
    /\ IsGenerated(t[i].risk_factors, RiskPhrases, "Low risk profile")
    /\ IsGenerated(t[i].growth_indicators, GrowthPhrases, "Standard growth potential")
    /\ ~row_raised(i) =>
         IsGenerated(t[i].scoring_rationale, RationalePhrases, "Standard analysis applied")

(***************************************************************************)
(* The frame of score_leads.                                                *)
(***************************************************************************)
\* the columns score_leads creates or replaces
CreatedColumns == DOMAIN score_columns \cup {"score_percentile"}

LeadScored == pc = "loop" /\ idx = 2 /\ lead_scores /= <<>>
\* every field but Company is missing or the empty text
OnlyCompanySet(lead) ==
  /\ lead.Company.k = "str" /\ lead.Company.s /= <<>>
  /\ \A f \in Fields \ {"Company"} : lead[f] \in {NA, Str(<<>>)}
\* the bonuses of section 4.5 that the company name earns, in tenths
NameBonuses(company_name) ==
    Min(80 * CountIn(leadership_terms, company_name), 200)
  + Min(40 * CountIn(innovation_terms, company_name), 160)
  + (IF Len(Split(company_name)) <= 3 /\ IsAlnum(RemoveSpaces(company_name)) THEN 50 ELSE 0)

\* C12: a record in which only Company is set scores company_size_score 25,
\* industry_score 40, website_quality_score 20, financial_score 45,
\* market_position_score 45 plus the bonuses of the company name alone, and
\* data_completeness_score 20.
C12_OnlyCompanySet ==
  (LeadScored /\ OnlyCompanySet(df[1])) =>
    /\ lead_scores.company_size_score = 250
    /\ lead_scores.industry_score = 400
    /\ lead_scores.website_quality_score = 200
    /\ lead_scores.financial_score = 450
    /\ lead_scores.market_position_score = 450 + NameBonuses(Lower(df[1].Company.s))
    /\ lead_scores.data_completeness_score = 200
    /\ \A c \in {"company_size_score", "industry_score", "website_quality_score",
                  "financial_score", "market_position_score"} :
         df_scored[1][c] = lead_scores[c]

\* a scored record with only Company set, in which a field is missing and
\* another is the empty text, and whose name earns a bonus
C12_NamedOnlyScored ==
  /\ LeadScored
  /\ OnlyCompanySet(df[1])
  /\ df[1].Industry = Str(<<>>)
  /\ df[1].Website = NA
  /\ df[1].EmployeeCount = Str(<<>>)
  /\ lead_scores.market_position_score > 500

\* the size score the ranges give the count e: the base of a range [lo,hi)
\* that holds e, plus 3 (at most 100) beyond position 0.7, minus 3 (at least
\* 0) before position 0.3
InRangeScore(e, score) ==
  \E i \in DOMAIN employee_scoring :
    LET lo == employee_scoring[i][1]
        hi == employee_scoring[i][2]
        b == employee_scoring[i][3]
    IN /\ lo <= e /\ e < hi
       /\ score = (IF 10 * (e - lo) > 7 * (hi - lo) THEN Min(10 * (b + 3), 1000)
                   ELSE IF 10 * (e - lo) < 3 * (hi - lo) THEN Max(10 * (b - 3), 0)
                   ELSE 10 * b)
InSomeRange(e) ==
  \E i \in DOMAIN employee_scoring :
    employee_scoring[i][1] <= e /\ e < employee_scoring[i][2]
StatedSizeScore(e, score) ==
  IF e = 0 THEN score = 250
  ELSE IF InSomeRange(e) THEN InRangeScore(e, score)
  ELSE IF e >= 5000 THEN score = 250
  ELSE score = 350
\* the integer an EmployeeCount cell stands for; 0 when it is absent or
\* unparsable
StatedCount(cell) ==
  IF cell.k = "num" THEN cell.n
  ELSE IF cell.k = "str" /\ ParseNumber(cell.s) /= FAILED THEN ParseNumber(cell.s).n
  ELSE 0

\* C13: the size score of an absent, unparsable or zero EmployeeCount is 25;
\* of a count in a range [lo,hi) of base b it is min(b+3,100) when
\* (e-lo)/(hi-lo) > 0.7, max(b-3,0) when it is < 0.3, and b otherwise; of a
\* count of 5000 or more it is 25; of any other count 35.  EmployeeCount 150
\* scores 92.
C13_SizeScore ==
  LeadScored =>
    /\ StatedSizeScore(StatedCount(df[1].EmployeeCount), lead_scores.company_size_score)
    /\ df[1].EmployeeCount = Num(150) => lead_scores.company_size_score = 920

\* the record with EmployeeCount 150, scored
C13_Scored150 ==
  /\ LeadScored
  /\ df[1].EmployeeCount = Num(150)
  /\ df_scored[1].company_size_score = 920

\* the table score of a declared name, in tenths
TableScore(name) ==
  10 * target_industries[CHOOSE i \in DOMAIN target_industries :
                           target_industries[i][1] = name][2]
\* the keyword bonuses of lines 189-193 on a base score
WithKeywordBonuses(base_score, industry_lower) ==
  LET b1 == IF AnyIn(industry_bonus_tech, industry_lower)
              THEN Min(base_score + 50, 1000) ELSE base_score
  IN IF AnyIn(industry_bonus_service, industry_lower) THEN Min(b1 + 30, 1000) ELSE b1

\* C14 (as stated): an Industry that is exactly a declared name of the table
\* scores that name's table score plus the applicable keyword bonuses (+5,
\* +3, at most 100); Industry "SaaS" scores 95.
C14_ExactMatch ==
  (LeadScored /\ df[1].Industry.k = "str" /\ df[1].Industry.s \in TableNames) =>
    /\ lead_scores.industry_score =
         WithKeywordBonuses(TableScore(df[1].Industry.s), Lower(df[1].Industry.s))
    /\ df[1].Industry.s = <<"S","a","a","S">> => lead_scores.industry_score = 950

techcorp_com == <<"t","e","c","h","c","o","r","p",".","c","o","m">>
\* the parts of the host of a website text: domain.split('.')
DomainParts(text) == SplitOn(Lower(netloc_of(website_str_of(text))), ".")

\* C15 (amended): Website "techcorp.com" yields website_quality_score 85:
\* base 40 + 20 (.com) + 15 (label of 8 characters) + 5 (one tech keyword)
\* + 5 (alphabetic label of 5 characters or more), no digit or hyphen penalty.
C15_TechcorpScores85 ==
  /\ DomainParts(techcorp_com) = << <<"t","e","c","h","c","o","r","p">>, <<"c","o","m">> >>
  /\ CountIn(tech_keywords, DomainParts(techcorp_com)[1]) = 1
  /\ IsAlpha(DomainParts(techcorp_com)[1])
  /\ (LeadScored /\ df[1].Website = Str(techcorp_com)) =>
       /\ lead_scores.website_quality_score = 850
       /\ df_scored[1].website_quality_score = 850

\* C15 (as stated): Website "techcorp.com" yields website_quality_score 80.
C15_TechcorpScores80 ==
  (LeadScored /\ df[1].Website = Str(techcorp_com)) =>
    lead_scores.website_quality_score = 800

\* the record with Website "techcorp.com", scored
C15_TechcorpScored ==
  /\ LeadScored
  /\ df[1].Website = Str(techcorp_com)
  /\ df_scored[1].website_quality_score > 0

\* the lower-cased name of entry i of the industry table
TargetLower(i) == Lower(target_industries[i][1])
\* strategy (a): the entries whose name contains, or is contained in, the text
SubstringTargets(industry_lower) ==
  {i \in DOMAIN target_industries :
     Contains(industry_lower, TargetLower(i)) \/ Contains(TargetLower(i), industry_lower)}
LongestTargets(industry_lower) ==
  {i \in SubstringTargets(industry_lower) :
     \A j \in SubstringTargets(industry_lower) : Len(TargetLower(j)) <= Len(TargetLower(i))}
\* strategy (b): the entries that share more than half of their words with it
OverlapTargets(industry_lower) ==
  {i \in DOMAIN target_industries :
     2 * Cardinality(Range(Split(TargetLower(i))) \cap Range(Split(industry_lower)))
       > Len(Split(TargetLower(i)))}
SetMax(S) == CHOOSE x \in S : \A y \in S : y <= x
\* the base scores (tenths) the two strategies, run independently, allow:
\* one value, unless two longest names of strategy (a) differ in score
StatedFuzzyBases(industry_lower) ==
  LET sub == LongestTargets(industry_lower)
      ovl == OverlapTargets(industry_lower)
      a == IF sub = {} THEN {0} ELSE {9 * target_industries[i][2] : i \in sub}
      b == IF ovl = {} THEN 0 ELSE SetMax({8 * target_industries[i][2] : i \in ovl})
  IN IF sub = {} /\ ovl = {} THEN {450} ELSE {Max(x, b) : x \in a}
\* a text Industry that is not blank and, cleaned, is no name of the table
FuzzyIndustry(cell) ==
  cell.k = "str" /\ ~Blank(cell) /\ ExactIndustry(Title(Strip(cell.s))) = 0

\* C16 (as stated): for a non-blank Industry with no exact match the base
\* score is the greater of (a) 0.9 x the score of the longest table name that
\* contains or is contained in the text and (b) the largest 0.8 x score over
\* the names sharing more than half of their words with it, and 45 when
\* neither matches; it is the same for every order of the table (whichever
\* of several longest names is taken).  The industry score is that base plus
\* the keyword bonuses.
C16_BetterOfTwoStrategies ==
  (LeadScored /\ FuzzyIndustry(df[1].Industry)) =>
    \A base \in StatedFuzzyBases(Lower(Title(Strip(df[1].Industry.s)))) :
      lead_scores.industry_score =
        WithKeywordBonuses(base, Lower(Title(Strip(df[1].Industry.s))))

\* the adjustments A of the composite, in tenths, for the seven sub-scores
StatedAdjustments(scores) ==
  LET keys == DOMAIN scores
      high == Cardinality({k \in keys : scores[k] >= 850})
      pos == {k \in keys : scores[k] > 0}
      n == Cardinality(pos)
      sum == SumSeq([i \in DOMAIN ScoreKeys |->
                       IF ScoreKeys[i] \in pos THEN scores[ScoreKeys[i]] ELSE 0])
      sumsq == SumSeq([i \in DOMAIN ScoreKeys |->
                         IF ScoreKeys[i] \in pos
                           THEN scores[ScoreKeys[i]] * scores[ScoreKeys[i]] ELSE 0])
      \* population standard deviation below d points
      std_below(d) == n * sumsq - sum * sum < 100 * d * d * n * n
  IN (IF high >= 3 THEN 80 ELSE IF high >= 2 THEN 40 ELSE 0)
     + (IF n >= 4 THEN (IF std_below(12) THEN 50 ELSE IF std_below(20) THEN 20 ELSE 0)
        ELSE 0)
     - (IF scores.industry_score < 400 THEN 80 ELSE 0)
     - (IF scores.company_size_score < 400 THEN 80 ELSE 0)
     - (IF scores.website_quality_score < 250 THEN 120 ELSE 0)
     - (IF scores.data_completeness_score < 400 THEN 80 ELSE 0)
     + (IF scores.industry_score >= 800 /\ scores.company_size_score >= 800 THEN 60 ELSE 0)

\* clamp[0,100] of W * (0.85 + 0.15 * completeness / 100) + A, in 1/8000 of a
\* tenth: W is the weighted sum over 20, and the factor is
\* (17000 + 3 * completeness) / 20000 for a completeness in tenths
StatedComposite(scores) ==
  LET w == 5 * scores.company_size_score + 6 * scores.industry_score
           + 5 * scores.financial_score + 2 * scores.website_quality_score
           + 2 * scores.market_position_score
      value == (w * (17000 + 3 * scores.data_completeness_score)) \div 50
               + 8000 * StatedAdjustments(scores)
  IN Max(Min(value, 8000000), 0)

\* C17: the composite written for a record is the stated value rounded to one
\* decimal: no tenth is nearer to clamp[0,100] of
\* W * (0.85 + 0.15 * completeness / 100) + A, with A the plain sum of the
\* adjustments.
C17_CompositeFormula ==
  LeadScored =>
    /\ 2 * (8000 * df_scored[1].Score - StatedComposite(lead_scores)) <= 8000
    /\ 2 * (StatedComposite(lead_scores) - 8000 * df_scored[1].Score) <= 8000

\* a scored record with three sub-scores of 85 or more, industry and size both
\* 80 or more and a website penalty, whose composite stays below the cap
C17_BonusesAndPenalty ==
  /\ LeadScored
  /\ Cardinality({k \in DOMAIN lead_scores : lead_scores[k] >= 850}) >= 3
  /\ lead_scores.industry_score >= 800 /\ lead_scores.company_size_score >= 800
  /\ lead_scores.website_quality_score < 250
  /\ df_scored[1].Score < 1000
  /\ df_scored[1].Score > 0

\* a website text from which no host with a name and an extension can be
\* parsed: urlparse refuses it, or its host has no "." between two parts
Malformed(text) ==
  \/ urlparse_raises(website_str_of(text))
  \/ Len(DomainParts(text)) < 2

\* C18 (as stated): a present but malformed Website text does not make the
\* scoring of the record fail, and yields a website_quality_score of at most
\* 25.
C18_MalformedWebsiteCapped ==
  (LeadScored /\ df[1].Website.k = "str" /\ ~Blank(df[1].Website)
     /\ Malformed(df[1].Website.s)) =>
    /\ ~StartsWithError(df_scored[1].scoring_rationale)
    /\ lead_scores.website_quality_score <= 250

(***************************************************************************)
(* The order of the rows.                                                   *)
(***************************************************************************)
\* table b holds the rows of table a, every column included, in some order
SameRowsReordered(a, b) ==
  /\ Len(a) = Len(b)
  /\ \E order \in Permutations(DOMAIN a) : \A i \in DOMAIN a : b[i] = a[order[i]]

RangesHolding(e) ==
  {i \in DOMAIN employee_scoring :
     employee_scoring[i][1] <= e /\ e < employee_scoring[i][2]}

\* the score entry i of the table gives the count e
EntryScore(e, i) ==
  LET lo == employee_scoring[i][1]
      hi == employee_scoring[i][2]
      b == employee_scoring[i][3]
  IN IF 10 * (e - lo) > 7 * (hi - lo) THEN Min(10 * (b + 3), 1000)
     ELSE IF 10 * (e - lo) < 3 * (hi - lo) THEN Max(10 * (b - 3), 0)
     ELSE 10 * b

\* C20: the declared ranges are pairwise disjoint; every count from 0 to 4999
\* lies in exactly one of them; the size score of a count from 1 to 4999 is
\* the score of every entry that holds it, so no iteration order of the table
\* gives another; and the default 35 is returned for negative counts only.
C20_OneRangePerCount ==
  LeadScored =>
    LET e == StatedCount(df[1].EmployeeCount)
    IN /\ \A i, j \in DOMAIN employee_scoring :
            i /= j => \/ employee_scoring[i][2] <= employee_scoring[j][1]
                      \/ employee_scoring[j][2] <= employee_scoring[i][1]
       /\ (0 <= e /\ e < 5000) => Cardinality(RangesHolding(e)) = 1
       /\ (e < 0 \/ e >= 5000) => RangesHolding(e) = {}
       /\ e /= 0 => \A i \in RangesHolding(e) :
                      lead_scores.company_size_score = EntryScore(e, i)
       /\ lead_scores.company_size_score = 350 => e < 0
       /\ e < 0 => lead_scores.company_size_score = 350

\* the record with EmployeeCount 300, where one range ends and the next
\* begins, scored by the range that begins there
C20_ScoredAtBoundary ==
  /\ LeadScored
  /\ df[1].EmployeeCount = Num(300)
  /\ RangesHolding(300) = {3}
  /\ df_scored[1].company_size_score = 820

====
